---- MODULE Spec2Model ----
(***************************************************************************)
(* Model of the "Experience-Glue" parser of src/app.py: get_clean_text     *)
(* and the line scan of deep_clinical_parse.                               *)
(*                                                                         *)
(* A Python string is modelled as a sequence of tokens.  A token is a      *)
(* word, a run of whitespace (" ") or the newline character (NL).  Words   *)
(* are atomic: a keyword occurs in a string when one of the string's       *)
(* tokens, after the case conversion the code applies, equals the keyword. *)
(***************************************************************************)
EXTENDS Naturals, Sequences, FiniteSets

VARIABLES pc, text, lines, i, current_block, triage

vars == <<pc, text, lines, i, current_block, triage>>

\* ---------------------------------------------------------------- bounds
MaxLines == 3
MaxLineLen == 2

\* ---------------------------------------------------------------- strings
NL == "\n"
WS == " "

\* The words a document is made of.
Words == {"GMC", "audit", "suturing", "Hospital", "2021", "jan", "EXPERIENCE"}

Tokens == Words \cup {WS}

\* str.lower() on one token.
LowerTok(t) ==
  CASE t = "GMC" -> "gmc"
    [] t = "Hospital" -> "hospital"
    [] t = "EXPERIENCE" -> "experience"
    [] OTHER -> t

\* str.upper() on one token.
UpperTok(t) ==
  CASE t = "GMC" -> "GMC"
    [] t = "audit" -> "AUDIT"
    [] t = "suturing" -> "SUTURING"
    [] t = "Hospital" -> "HOSPITAL"
    [] t = "jan" -> "JAN"
    [] OTHER -> t

lower(s) == [k \in 1..Len(s) |-> LowerTok(s[k])]

upper(s) == [k \in 1..Len(s) |-> UpperTok(s[k])]

\* `k in s` for a keyword k.
In(k, s) == \E n \in 1..Len(s) : s[n] = k

\* any(k in s for k in ks)
AnyIn(ks, s) == \E k \in ks : In(k, s)

RECURSIVE lstrip(_)
lstrip(s) == IF s # <<>> /\ Head(s) \in {WS, NL} THEN lstrip(Tail(s)) ELSE s

RECURSIVE rstrip(_)
rstrip(s) ==
  IF s # <<>> /\ s[Len(s)] \in {WS, NL} THEN rstrip(SubSeq(s, 1, Len(s) - 1)) ELSE s

\* A mutant of strip: nothing is removed.
strip_none(s) == s

\* str.strip()
strip(s) == rstrip(lstrip(s))

\* A mutant of Join: the parts are glued without the separator.
RECURSIVE Join_nosep(_)
Join_nosep(parts) ==
  IF parts = <<>> THEN <<>> ELSE Head(parts) \o Join_nosep(Tail(parts))

\* "\n".join(parts)
RECURSIVE Join(_)
Join(parts) ==
  IF parts = <<>> THEN <<>>
  ELSE IF Len(parts) = 1 THEN Head(parts)
  ELSE Head(parts) \o <<NL>> \o Join(Tail(parts))

\* s.split('\n'): always at least one part.
RECURSIVE split(_)
split(s) ==
  IF \A n \in 1..Len(s) : s[n] # NL THEN <<s>>
  ELSE LET n == CHOOSE m \in 1..Len(s) :
                  s[m] = NL /\ \A j \in 1..(m - 1) : s[j] # NL
       IN <<SubSeq(s, 1, n - 1)>> \o split(SubSeq(s, n + 1, Len(s)))

\* ---------------------------------------------------------------- inputs
\* The text of one page (pdf) or one paragraph (docx).
Parts == UNION {[1..n -> Tokens] : n \in 0..MaxLineLen}

\* The pages or paragraphs of one document.
Documents == UNION {[1..n -> Parts] : n \in 0..MaxLines}

Extensions == {".pdf", ".docx", ".txt"}

\* ---------------------------------------------------------------- parser
\* get_clean_text on a file the library can read.
get_clean_text(ext, parts) ==
  IF ext = ".pdf" THEN Join(SelectSeq(parts, LAMBDA p : p # <<>>))
  ELSE IF ext = ".docx" THEN Join(parts)
  ELSE <<>>

EmptyTriage ==
  [rotations |-> <<>>, procedures |-> <<>>, projects |-> <<>>,
   registrations |-> <<>>, fragments |-> <<>>]

\* \d{4} at the start of a line.
FourDigits == {"2021"}

\* The alternatives of date_header_pattern other than \d{4}, lower-cased
\* (the match is made with re.IGNORECASE).
DateWords ==
  {"jan", "feb", "mar", "apr", "may", "jun", "jul", "aug", "sep", "oct",
   "nov", "dec", "present", "current"}

\* A mutant of date_match: the match is case-sensitive.
date_match_cs(clean_line) ==
  /\ clean_line # <<>>
  /\ clean_line[1] \in FourDigits \cup
       {"Jan", "Feb", "Mar", "Apr", "May", "Jun", "Jul", "Aug", "Sep", "Oct",
        "Nov", "Dec", "Present", "Current"}

\* re.match(date_header_pattern, clean_line, re.IGNORECASE)
date_match(clean_line) ==
  /\ clean_line # <<>>
  /\ \/ clean_line[1] \in FourDigits
     \/ LowerTok(clean_line[1]) \in DateWords

HeaderKeywords == {"HOSPITAL", "TRUST", "SZPITAL"}

is_new_header(clean_line) ==
  date_match(clean_line) \/ AnyIn(HeaderKeywords, upper(clean_line))

RegistrationKeywords == {"gmc", "license", "registration"}
AcademicKeywords == {"audit", "qip", "research", "publication"}
ProcedureKeywords == {"procedure", "intubation", "suturing", "cannulation"}
RotationKeywords == {"hospital", "trust", "szpital", "ward"}

\* \b20\d{2}\b
YearTokens == {"2021"}

\* A mutant of Category: procedures are tested before projects.
Category_proc_first(low) ==
  IF AnyIn(RegistrationKeywords, low) THEN "registrations"
  ELSE IF AnyIn(ProcedureKeywords, low) THEN "procedures"
  ELSE IF AnyIn(AcademicKeywords, low) THEN "projects"
  ELSE IF AnyIn(RotationKeywords, low) THEN "rotations"
  ELSE "fragments"

\* A mutant of Category: an unmatched block with a year goes to rotations.
Category_year(low) ==
  IF AnyIn(RegistrationKeywords, low) THEN "registrations"
  ELSE IF AnyIn(AcademicKeywords, low) THEN "projects"
  ELSE IF AnyIn(ProcedureKeywords, low) THEN "procedures"
  ELSE IF AnyIn(RotationKeywords, low) THEN "rotations"
  ELSE IF AnyIn(YearTokens, low) THEN "rotations"
  ELSE "fragments"

\* The if/elif chain that picks the list of a closed block.
Category(low) ==
  IF AnyIn(RegistrationKeywords, low) THEN "registrations"
  ELSE IF AnyIn(AcademicKeywords, low) THEN "projects"
  ELSE IF AnyIn(ProcedureKeywords, low) THEN "procedures"
  ELSE IF AnyIn(RotationKeywords, low) THEN "rotations"
  ELSE "fragments"

\* A mutant of append_to: the catch-all list is not kept.
append_to_drop(tr, key, full_content) ==
  IF key = "fragments" THEN tr
  ELSE [tr EXCEPT ![key] = Append(@, full_content)]

\* triage[key].append(full_content)
append_to(tr, key, full_content) ==
  [tr EXCEPT ![key] = Append(@, full_content)]

\* A mutant of should_close: the accumulator is not tested.
should_close_any(clean_line, block) == is_new_header(clean_line)

\* is_new_header and current_block
should_close(clean_line, block) ==
  is_new_header(clean_line) /\ block # <<>>

\* A mutant of fresh_bucket: the header line is not kept.
fresh_bucket_empty(clean_line) == <<>>

\* current_block = [clean_line]
fresh_bucket(clean_line) == <<clean_line>>

\* A mutant of final_bucket: the last block goes to the catch-all list.
final_bucket_fragments(tr, block) ==
  IF block # <<>> THEN append_to(tr, "fragments", Join(block)) ELSE tr

\* A mutant of final_bucket: the last block is classified like the others.
final_bucket_classified(tr, block) ==
  IF block # <<>>
  THEN append_to(tr, Category(lower(Join(block))), Join(block))
  ELSE tr

\* The final bucket catch.
final_bucket(tr, block) ==
  IF block # <<>> THEN append_to(tr, "rotations", Join(block)) ELSE tr

\* ---------------------------------------------------------------- actions
Init ==
  /\ pc = "start"
  /\ text = <<>>
  /\ lines = <<>>
  /\ i = 1
  /\ current_block = <<>>
  /\ triage = EmptyTriage

\* deep_clinical_parse up to the loop: the library reads the file.
Extract ==
  /\ pc = "start"
  /\ \E ext \in Extensions, parts \in Documents :
       /\ text' = get_clean_text(ext, parts)
       /\ lines' = split(text')
  /\ pc' = "scan"
  /\ i' = 1
  /\ current_block' = <<>>
  /\ triage' = EmptyTriage

\* pdfplumber.open or docx.Document raises on a file it cannot read;
\* nothing catches it.
ExtractRaises ==
  /\ pc = "start"
  /\ \E ext \in {".pdf", ".docx"} : TRUE
  /\ pc' = "raised"
  /\ UNCHANGED <<text, lines, i, current_block, triage>>

\* One iteration of the loop on a blank line.
SkipBlank ==
  /\ pc = "scan"
  /\ i <= Len(lines)
  /\ strip(lines[i]) = <<>>
  /\ i' = i + 1
  /\ UNCHANGED <<pc, text, lines, current_block, triage>>

\* One iteration of the loop on a header line that ends a block.
CloseBlock ==
  /\ pc = "scan"
  /\ i <= Len(lines)
  /\ LET clean_line == strip(lines[i])
         full_content == Join(current_block)
         low == lower(full_content)
     IN /\ clean_line # <<>>
        /\ should_close(clean_line, current_block)
        /\ triage' = append_to(triage, Category(low), full_content)
        /\ current_block' = fresh_bucket(clean_line)
  /\ i' = i + 1
  /\ UNCHANGED <<pc, text, lines>>

\* One iteration of the loop on any other line.
AppendLine ==
  /\ pc = "scan"
  /\ i <= Len(lines)
  /\ LET clean_line == strip(lines[i])
     IN /\ clean_line # <<>>
        /\ ~should_close(clean_line, current_block)
        /\ current_block' = Append(current_block, clean_line)
  /\ i' = i + 1
  /\ UNCHANGED <<pc, text, lines, triage>>

\* After the loop: the final bucket catch and the return.
FinalBucket ==
  /\ pc = "scan"
  /\ i > Len(lines)
  /\ triage' = final_bucket(triage, current_block)
  /\ pc' = "done"
  /\ UNCHANGED <<text, lines, i, current_block>>

Next ==
  \/ Extract
  \/ ExtractRaises
  \/ SkipBlank
  \/ CloseBlock
  \/ AppendLine
  \/ FinalBucket

Spec == Init /\ [][Next]_vars

\* ---------------------------------------------------------------- notions
Keys == {"rotations", "procedures", "projects", "registrations", "fragments"}

Last(s) == s[Len(s)]

RECURSIVE Flatten(_)
Flatten(ss) == IF ss = <<>> THEN <<>> ELSE Head(ss) \o Flatten(Tail(ss))

\* The non-empty trimmed lines among the first n of ls, in order.
RECURSIVE CleanLines(_, _)
CleanLines(ls, n) ==
  IF n = 0 THEN <<>>
  ELSE IF strip(ls[n]) = <<>> THEN CleanLines(ls, n - 1)
  ELSE Append(CleanLines(ls, n - 1), strip(ls[n]))

\* The non-empty trimmed lines the loop has gone through.
Scanned == CleanLines(lines, i - 1)

AllClean == CleanLines(lines, Len(lines))

\* All the blocks of a result, list after list.
AllBlocks(tr) ==
  tr.rotations \o tr.procedures \o tr.projects \o tr.registrations \o tr.fragments

Total(tr) == Len(AllBlocks(tr))

\* A step of the loop, and the step that leaves it.
LoopStep == pc = "scan" /\ pc' = "scan" /\ i' = i + 1
FinalStep == pc = "scan" /\ pc' = "done"

\* The step puts block b at the end of list key and changes no other list.
Placed(key, b) == triage' = [triage EXCEPT ![key] = Append(@, b)]

\* The list that grows in this step, if one does.
Grown == {key \in Keys : Len(triage'[key]) = Len(triage[key]) + 1}

KeywordsOf(key) ==
  CASE key = "registrations" -> RegistrationKeywords
    [] key = "projects" -> AcademicKeywords
    [] key = "procedures" -> ProcedureKeywords
    [] key = "rotations" -> RotationKeywords
    [] OTHER -> {}

\* The block's lower-cased text matches the keyword set of the list.
Matches(key, b) == AnyIn(KeywordsOf(key), lower(b))

MatchCount(b) == Cardinality({key \in Keys : Matches(key, b)})

\* The first list of the order whose keyword set the block matches.
FirstMatch(order, b) ==
  order[CHOOSE n \in 1..Len(order) :
          /\ Matches(order[n], b)
          /\ \A m \in 1..(n - 1) : ~Matches(order[m], b)]

HasYear(b) == AnyIn(YearTokens, b)

\* ---------------------------------------------------------------- C1
ClaimedOrder == <<"registrations", "procedures", "projects", "rotations">>
CodeOrder == <<"registrations", "projects", "procedures", "rotations">>

PlacedByOrder(order) ==
  LoopStep =>
    \A key \in Grown :
      MatchCount(Last(triage'[key])) >= 2 =>
        key = FirstMatch(order, Last(triage'[key]))

\* C1 as stated: a block closed in the loop whose text matches two or more
\* keyword sets goes to the first matching list in the order registration,
\* procedure, academic (projects), rotation.
C1_ClaimedPriority == [][PlacedByOrder(ClaimedOrder)]_vars

\* C1 amended: a block closed in the loop whose text matches two or more
\* keyword sets goes to the first matching list in the order registration,
\* academic (projects), procedure, rotation.
C1_CodePriority == [][PlacedByOrder(CodeOrder)]_vars

\* A block with an academic and a procedure keyword was closed in the loop,
\* after a first block was.
C1_Witness ==
  /\ pc = "scan"
  /\ Total(triage) = 2
  /\ \E n \in 1..Len(triage.projects) :
       /\ Matches("projects", triage.projects[n])
       /\ Matches("procedures", triage.projects[n])

\* ---------------------------------------------------------------- C2
\* C2 as stated: a block closed by a header line that matches no keyword set
\* goes to rotations when it holds a year 20dd, and to fragments otherwise.
C2_YearFallback ==
  [][LoopStep =>
       \A key \in Grown :
         MatchCount(Last(triage'[key])) = 0 =>
           key = (IF HasYear(Last(triage'[key])) THEN "rotations" ELSE "fragments")]_vars

\* C2 amended: a block closed by a header line that matches no keyword set
\* goes to fragments, whether or not it holds a year 20dd.
C2_Unmatched ==
  [][LoopStep =>
       \A key \in Grown :
         MatchCount(Last(triage'[key])) = 0 => key = "fragments"]_vars

C2_Witness ==
  /\ pc = "scan"
  /\ \E n \in 1..Len(triage.fragments) :
       HasYear(triage.fragments[n]) /\ MatchCount(triage.fragments[n]) = 0
  /\ \E n \in 1..Len(triage.fragments) : ~HasYear(triage.fragments[n])

\* ---------------------------------------------------------------- C3
ClaimedSectionKeywords ==
  {"HOSPITAL", "TRUST", "EXPERIENCE", "EMPLOYMENT", "EDUCATION", "QUALIFICATIONS"}

CodeSectionKeywords == {"HOSPITAL", "TRUST", "SZPITAL"}

\* The line begins with a 4-digit year, a month abbreviation, "Present" or
\* "Current", in any case.
StartsWithDate(line) == LowerTok(Head(line)) \in FourDigits \cup DateWords

HeaderBy(kws, line) ==
  StartsWithDate(line) \/ \E n \in 1..Len(line) : UpperTok(line[n]) \in kws

\* With lines already accumulated, the line is treated as a header when the
\* step closes the accumulated block and starts a new one with the line.
TreatedAsHeader(line) ==
  current_block' = <<line>> /\ Total(triage') = Total(triage) + 1

HeaderExactly(kws) ==
  (LoopStep /\ strip(lines[i]) # <<>> /\ current_block # <<>>) =>
    (TreatedAsHeader(strip(lines[i])) <=> HeaderBy(kws, strip(lines[i])))

\* C3 as stated: a non-empty trimmed line is treated as a header exactly when
\* it begins with a date token or contains one of HOSPITAL, TRUST, EXPERIENCE,
\* EMPLOYMENT, EDUCATION, QUALIFICATIONS.
C3_ClaimedHeader == [][HeaderExactly(ClaimedSectionKeywords)]_vars

\* C3 amended: a non-empty trimmed line is treated as a header exactly when
\* it begins with a date token or contains one of HOSPITAL, TRUST, SZPITAL.
C3_CodeHeader == [][HeaderExactly(CodeSectionKeywords)]_vars

C3_Witness ==
  /\ pc = "scan"
  /\ Total(triage) = 2
  /\ Len(current_block) = 1
  /\ LowerTok(current_block[1][1]) \in DateWords
  /\ \E n \in 1..Len(Scanned) : In("EXPERIENCE", Scanned[n])
  /\ \E n \in 2..Len(Scanned) : In("Hospital", Scanned[n]) /\ ~StartsWithDate(Scanned[n])

\* ---------------------------------------------------------------- C4
\* C4: in a step of the loop on a non-empty line, a header met with a
\* non-empty accumulator closes the accumulated lines as one block, puts it
\* at the end of exactly one list and leaves the header alone in the
\* accumulator; any other line is added to the accumulator and no list
\* changes.
C4_ScanStep ==
  [][(LoopStep /\ strip(lines[i]) # <<>>) =>
       IF is_new_header(strip(lines[i])) /\ current_block # <<>>
       THEN /\ current_block' = <<strip(lines[i])>>
            /\ Cardinality(Grown) = 1
            /\ \A key \in Grown :
                 /\ Placed(key, Last(triage'[key]))
                 /\ split(Last(triage'[key])) = current_block
       ELSE /\ current_block' = Append(current_block, strip(lines[i]))
            /\ triage' = triage]_vars

\* A block was closed by a header that followed a header, and a later line
\* was added to the accumulator.
C4_Witness ==
  /\ pc = "scan"
  /\ Len(Scanned) = 3
  /\ is_new_header(Scanned[1])
  /\ is_new_header(Scanned[2])
  /\ Total(triage) = 1
  /\ Len(current_block) = 2

\* ---------------------------------------------------------------- C5
\* C5: at the end of the input a non-empty accumulator is closed as a last
\* block that goes to rotations whatever it holds, and to no other list; an
\* empty accumulator adds nothing.
C5_FinalToRotations ==
  [][FinalStep =>
       IF current_block # <<>>
       THEN /\ Len(triage'.rotations) = Len(triage.rotations) + 1
            /\ Placed("rotations", Last(triage'.rotations))
            /\ split(Last(triage'.rotations)) = current_block
       ELSE triage' = triage]_vars

C5_Witness ==
  /\ pc = "done"
  /\ triage.rotations # <<>>
  /\ Matches("registrations", Last(triage.rotations))
  /\ ~Matches("rotations", Last(triage.rotations))
  /\ Total(triage) = 2

\* ---------------------------------------------------------------- C6
NoHeaderLine == \A n \in 1..Len(AllClean) : ~is_new_header(AllClean[n])

\* C6: a text with a non-empty line and no header line gives one block in
\* all: rotations holds the block of all the trimmed lines in order, the
\* other lists are empty.
C6_SingleBlock ==
  (pc = "done" /\ AllClean # <<>> /\ NoHeaderLine) =>
    /\ Len(triage.rotations) = 1
    /\ split(triage.rotations[1]) = AllClean
    /\ triage.procedures = <<>>
    /\ triage.projects = <<>>
    /\ triage.registrations = <<>>
    /\ triage.fragments = <<>>

C6_Witness ==
  /\ pc = "done"
  /\ Len(AllClean) = 3
  /\ NoHeaderLine
  /\ Len(triage.rotations) = 1

\* ---------------------------------------------------------------- C7
\* The headers among the lines after the first.
RECURSIVE HeadersAfterFirst(_)
HeadersAfterFirst(ls) ==
  IF Len(ls) <= 1 THEN 0
  ELSE HeadersAfterFirst(SubSeq(ls, 1, Len(ls) - 1))
         + (IF is_new_header(Last(ls)) THEN 1 ELSE 0)

\* The blocks the segmenter has closed so far.
ClosedSoFar ==
  HeadersAfterFirst(Scanned) + (IF pc = "done" /\ Scanned # <<>> THEN 1 ELSE 0)

\* C7: during the scan and in the result, the five lists together hold as
\* many blocks as the segmenter has closed.
C7_BlockCount == pc \in {"scan", "done"} => Total(triage) = ClosedSoFar

C7_Witness ==
  /\ pc = "done"
  /\ Total(triage) = 3
  /\ triage.fragments # <<>>
  /\ triage.projects # <<>>

\* ---------------------------------------------------------------- C9
\* Every line of the text is empty or made of whitespace only.
AllBlank ==
  \A n \in 1..Len(lines) : \A k \in 1..Len(lines[n]) : lines[n][k] = WS

\* C9: a text that is empty or has only blank lines gives five empty lists.
C9_EmptyResult == (pc = "done" /\ AllBlank) => triage = EmptyTriage

C9_Witness ==
  /\ pc = "done"
  /\ AllBlank
  /\ Len(lines) = 3
  /\ \E n \in 1..Len(lines) : lines[n] # <<>>

\* ---------------------------------------------------------------- C10
Permutations(n) ==
  {p \in [1..n -> 1..n] : \A a, b \in 1..n : p[a] = p[b] => a = b}

\* C10: in the result every block is non-empty, and the blocks can be put in
\* an order in which their lines, one block after the other, are the
\* non-empty trimmed lines of the input in source order.
C10_LineConservation ==
  pc = "done" =>
    LET blocks == AllBlocks(triage)
    IN /\ \A n \in 1..Len(blocks) : blocks[n] # <<>>
       /\ \E p \in Permutations(Len(blocks)) :
            Flatten([n \in 1..Len(blocks) |-> split(blocks[p[n]])]) = AllClean

C10_Witness ==
  /\ pc = "done"
  /\ Len(AllClean) = 3
  /\ Len(lines) = 3
  /\ triage.registrations # <<>>
  /\ triage.rotations # <<>>
  /\ \E n \in 1..Len(triage.registrations) : Len(split(triage.registrations[n])) = 2

\* ---------------------------------------------------------------- C8
\* C8 as stated: no exception leaves get_clean_text or the pipeline, whatever
\* the document.
C8_NeverRaises == pc # "raised"

====
